---- MODULE Spec2Model ----
(***************************************************************************)
(* Model of deploy_csvs_to_snowflake (src/snowflake_deployer.py): one call *)
(* is a linear sequence of library calls inside try / except / finally.    *)
(* Every library call that can raise has a succeeding and a raising        *)
(* outcome.  Strings are sequences of one-character strings.               *)
(***************************************************************************)
EXTENDS Integers, Sequences, FiniteSets, TLC

\* ------------------------------------------------------------------ bounds
\* largest number of entries in the source directory
MaxFiles == 2
\* number of consecutive calls of deploy on the same directory and target
MaxRuns == 2
\* longest file stem (base name without the final ".csv") of SpecName
MaxStem == 5

\* ----------------------------------------------------------------- strings
\* the literal '.csv' of lines 44 and 51
Ext == <<".", "c", "s", "v">>

\* characters of the bounded file names
Alphabet == {"a", "B", ".", "c", "s", "v"}

\* str.upper on one character
UpperChar(c) ==
  CASE c = "a" -> "A"
    [] c = "b" -> "B"
    [] c = "c" -> "C"
    [] c = "s" -> "S"
    [] c = "v" -> "V"
    [] OTHER -> c

\* str.upper
upper(s) == [j \in 1..Len(s) |-> UpperChar(s[j])]

\* old occurs in s at position j
OccursAt(s, old, j) ==
  /\ j + Len(old) - 1 <= Len(s)
  /\ SubSeq(s, j, j + Len(old) - 1) = old

\* str.replace(old, new): every non-overlapping occurrence, scanning from the left
RECURSIVE ReplaceFrom(_, _, _, _)
ReplaceFrom(s, old, new, j) ==
  IF j > Len(s) THEN <<>>
  ELSE IF OccursAt(s, old, j) THEN new \o ReplaceFrom(s, old, new, j + Len(old))
  ELSE <<s[j]>> \o ReplaceFrom(s, old, new, j + 1)

replace(s, old, new) == ReplaceFrom(s, old, new, 1)

\* os.path.join(csv_directory, name)
join(d, name) == d \o <<"/">> \o name

\* os.path.basename: what follows the last "/"
RECURSIVE basename(_)
basename(p) ==
  IF \E j \in 1..Len(p) : p[j] = "/"
  THEN basename(Tail(p))
  ELSE p

\* line 51: os.path.basename(csv_file).replace('.csv', '').upper()
table_name(csv_file) == upper(replace(basename(csv_file), Ext, <<>>))

\* glob's '*.csv' on one directory entry: fnmatch of the suffix, and glob
\* skips entries that start with "." when the pattern does not
Matches(name) ==
  /\ Len(name) >= Len(Ext)
  /\ SubSeq(name, Len(name) - Len(Ext) + 1, Len(name)) = Ext
  /\ name[1] # "."

\* ------------------------------------------------------------------ inputs
\* csv_directory
CsvDirectory == <<"d">>

\* the directory entries the model draws from
FileNames ==
  { <<"a", ".", "c", "s", "v">>,
    <<"A", ".", "c", "s", "v">>,
    <<"b", ".", "c", "s", "v">>,
    <<"a", ".", "c", "s", "v", "b", ".", "c", "s", "v">>,
    <<"a", ".", "b", ".", "c", "s", "v">>,
    <<"a", ".", "c", "s">> }

\* the rows of a file: distinct files hold distinct rows
Rows(name) ==
  CASE name = <<"a", ".", "c", "s", "v">> -> <<1>>
    [] name = <<"A", ".", "c", "s", "v">> -> <<2>>
    [] name = <<"b", ".", "c", "s", "v">> -> <<3>>
    [] name = <<"a", ".", "c", "s", "v", "b", ".", "c", "s", "v">> -> <<4>>
    [] name = <<"a", ".", "b", ".", "c", "s", "v">> -> <<5>>
    [] OTHER -> <<6>>

\* sequences without repetition over S, of length n
RECURSIVE Arrangements(_, _)
Arrangements(S, n) ==
  IF n = 0 THEN {<<>>}
  ELSE UNION { { <<x>> \o t : t \in Arrangements(S \ {x}, n - 1) } : x \in S }

\* the orders in which a listing call can return the members of S
Orderings(S) == Arrangements(S, Cardinality(S))

Range(s) == { s[j] : j \in 1..Len(s) }

\* the empty mapping from table names to rows
NoTables == [n \in {} |-> <<>>]

\* ------------------------------------------------------- library behaviour
\* DuckDB reads an unquoted name holding "." as schema.table, and the fresh
\* in-memory store has no such schema: the statement of line 52 then fails
PlainIdentifier(name) == name # <<>> /\ \A j \in 1..Len(name) : name[j] # "."

\* line 52 written with CREATE OR REPLACE TABLE: a table of the same name is
\* replaced instead of the statement raising
create_table_or_replace(st, name, rows, wellformed) ==
  IF wellformed /\ PlainIdentifier(name)
  THEN [ok |-> TRUE,
        store |-> [n \in DOMAIN st \cup {name} |-> IF n = name THEN rows ELSE st[n]]]
  ELSE [ok |-> FALSE, store |-> st]

\* lines 52-53: CREATE TABLE <name> AS SELECT * FROM read_csv_auto(<file>).
\* There is no OR REPLACE and no IF NOT EXISTS: the statement raises when the
\* store already holds a table of that name, and when the file cannot be read
create_table_as(st, name, rows, wellformed) ==
  IF wellformed /\ PlainIdentifier(name) /\ name \notin DOMAIN st
  THEN [ok |-> TRUE,
        store |-> [n \in DOMAIN st \cup {name} |-> IF n = name THEN rows ELSE st[n]]]
  ELSE [ok |-> FALSE, store |-> st]

\* line 65 written with mode("append"): the rows are added to an existing table
save_as_table_append(rem, name, batch) ==
  [n \in DOMAIN rem \cup {name} |->
     IF n # name THEN rem[n]
     ELSE IF name \in DOMAIN rem THEN rem[name] \o batch ELSE batch]

\* line 65: write.mode("overwrite").save_as_table(name): create or replace
save_as_table(rem, name, batch) ==
  [n \in DOMAIN rem \cup {name} |-> IF n = name THEN batch ELSE rem[n]]

\* line 44: glob.glob(os.path.join(csv_directory, '*.csv')), in listing order
glob(entries) ==
  LET matched == SelectSeq(entries, Matches)
  IN  [j \in 1..Len(matched) |-> join(CsvDirectory, matched[j])]

\* ------------------------------------------------------------------- state
VARIABLES
  directory,      \* the entries of csv_directory, in the order the listing returns them
  malformed,      \* the entries read_csv_auto cannot load
  remote,         \* the warehouse tables of the target schema: name -> rows
  run,            \* which call of deploy this is
  prevResult,     \* what the previous call returned
  prevRemote,     \* the warehouse tables when the previous call ended
  pc,             \* the statement the call is at
  session,        \* line 29: "None", then "open", then "closed"
  con,            \* line 30: "None", then "open", then "closed"
  store,          \* the tables of the in-memory store: name -> rows
  csv_files,      \* line 44
  i,              \* position of the loop of line 50 in csv_files
  duckdb_tables,  \* line 58
  k,              \* position of the loop of line 61 in duckdb_tables
  arrow_table,    \* line 63
  ret,            \* the return value pending while finally runs ("none": no return yet)
  result,         \* how the call ended: "True", "False", "raised"; "none" while it runs
  ops             \* the library calls of this call of deploy, in order

vars == <<directory, malformed, remote, run, prevResult, prevRemote, pc, session,
          con, store, csv_files, i, duckdb_tables, k, arrow_table, ret, result, ops>>

inputs == <<directory, malformed, run, prevResult, prevRemote>>

\* one entry of ops
Call(op, file, tbl, ok) == [op |-> op, file |-> file, tbl |-> tbl, ok |-> ok]

\* the directories of at most MaxFiles entries
Directories == UNION { Arrangements(FileNames, n) : n \in 0..MaxFiles }

\* lines 27-30: the locals at the start of a call
Locals ==
  /\ pc = "create"
  /\ session = "None"
  /\ con = "None"
  /\ store = NoTables
  /\ csv_files = <<>>
  /\ i = 1
  /\ duckdb_tables = <<>>
  /\ k = 1
  /\ arrow_table = <<>>
  /\ ret = "none"
  /\ result = "none"
  /\ ops = <<>>

Init ==
  /\ directory \in Directories
  /\ malformed \in SUBSET { n \in Range(directory) : Matches(n) }
  /\ remote = NoTables
  /\ run = 1
  /\ prevResult = "none"
  /\ prevRemote = NoTables
  /\ Locals

\* lines 68-70: except Exception: print, return False; finally runs next
Except ==
  /\ ret' = "False"
  /\ pc' = "finally_session"

\* line 34: Session.builder.config(...).create()
SessionCreate ==
  /\ pc = "create"
  /\ \E ok \in BOOLEAN :
       /\ ops' = Append(ops, Call("create", <<>>, <<>>, ok))
       /\ IF ok
          THEN session' = "open" /\ pc' = "use_database" /\ ret' = ret
          ELSE session' = session /\ Except
  /\ UNCHANGED <<inputs, remote, con, store, csv_files, i, duckdb_tables, k,
                 arrow_table, result>>

\* line 36: session.use_database(sf_database)
UseDatabase ==
  /\ pc = "use_database"
  /\ \E ok \in BOOLEAN :
       /\ ops' = Append(ops, Call("use_database", <<>>, <<>>, ok))
       /\ IF ok THEN pc' = "use_schema" /\ ret' = ret ELSE Except
  /\ UNCHANGED <<inputs, remote, session, con, store, csv_files, i, duckdb_tables,
                 k, arrow_table, result>>

\* line 37: session.use_schema(sf_schema)
UseSchema ==
  /\ pc = "use_schema"
  /\ \E ok \in BOOLEAN :
       /\ ops' = Append(ops, Call("use_schema", <<>>, <<>>, ok))
       /\ IF ok THEN pc' = "connect" /\ ret' = ret ELSE Except
  /\ UNCHANGED <<inputs, remote, session, con, store, csv_files, i, duckdb_tables,
                 k, arrow_table, result>>

\* line 41: duckdb.connect(database=':memory:'): a fresh, empty store
DuckdbConnect ==
  /\ pc = "connect"
  /\ \E ok \in BOOLEAN :
       /\ ops' = Append(ops, Call("connect", <<>>, <<>>, ok))
       /\ IF ok
          THEN con' = "open" /\ store' = NoTables /\ pc' = "glob" /\ ret' = ret
          ELSE con' = con /\ store' = store /\ Except
  /\ UNCHANGED <<inputs, remote, session, csv_files, i, duckdb_tables, k,
                 arrow_table, result>>

\* lines 44-47: enumerate the files; with none, return False (finally runs next)
Glob ==
  /\ pc = "glob"
  /\ csv_files' = glob(directory)
  /\ ops' = Append(ops, Call("glob", <<>>, <<>>, TRUE))
  /\ i' = 1
  /\ IF csv_files' = <<>>
     THEN ret' = "False" /\ pc' = "finally_session"
     ELSE ret' = ret /\ pc' = "load"
  /\ UNCHANGED <<inputs, remote, session, con, store, duckdb_tables, k,
                 arrow_table, result>>

\* lines 50-54: one iteration of the load loop
LoadCsv ==
  /\ pc = "load"
  /\ LET csv_file == csv_files[i]
         name == table_name(csv_file)
         got == create_table_as(store, name, Rows(basename(csv_file)),
                                basename(csv_file) \notin malformed)
     IN  /\ ops' = Append(ops, Call("load", csv_file, name, got.ok))
         /\ store' = got.store
         /\ IF got.ok
            THEN /\ ret' = ret
                 /\ i' = i + 1
                 /\ pc' = IF i < Len(csv_files) THEN "load" ELSE "show"
            ELSE i' = i /\ Except
  /\ UNCHANGED <<inputs, remote, session, con, csv_files, duckdb_tables, k,
                 arrow_table, result>>

\* lines 57-58: SHOW TABLES, in the order the store returns them
ShowTables ==
  /\ pc = "show"
  /\ \E ok \in BOOLEAN :
       /\ ops' = Append(ops, Call("show", <<>>, <<>>, ok))
       /\ IF ok
          THEN /\ duckdb_tables' \in Orderings(DOMAIN store)
               /\ ret' = ret
               /\ pc' = IF duckdb_tables' = <<>> THEN "finally_session" ELSE "export"
          ELSE duckdb_tables' = duckdb_tables /\ Except
  /\ k' = 1
  /\ UNCHANGED <<inputs, remote, session, con, store, csv_files, i, arrow_table,
                 result>>

\* line 63: con.table(table_name).to_arrow_table()
Export ==
  /\ pc = "export"
  /\ \E ok \in BOOLEAN :
       /\ ops' = Append(ops, Call("export", <<>>, duckdb_tables[k], ok))
       /\ IF ok
          THEN arrow_table' = store[duckdb_tables[k]] /\ pc' = "write" /\ ret' = ret
          ELSE arrow_table' = arrow_table /\ Except
  /\ UNCHANGED <<inputs, remote, session, con, store, csv_files, i, duckdb_tables,
                 k, result>>

\* lines 64-65: session.create_dataframe(arrow_table), then
\* write.mode("overwrite").save_as_table(table_name); a call that raises leaves
\* the warehouse table as it was
Write ==
  /\ pc = "write"
  /\ \E ok \in BOOLEAN :
       /\ ops' = Append(ops, Call("write", <<>>, duckdb_tables[k], ok))
       /\ IF ok
          THEN /\ remote' = save_as_table(remote, duckdb_tables[k], arrow_table)
               /\ k' = k + 1
               /\ ret' = ret
               /\ pc' = IF k < Len(duckdb_tables) THEN "export" ELSE "finally_session"
          ELSE remote' = remote /\ k' = k /\ Except
  /\ UNCHANGED <<inputs, session, con, store, csv_files, i, duckdb_tables,
                 arrow_table, result>>

\* lines 74-76: if session: session.close(); an exception raised here leaves
\* the finally block and the function
FinallySession ==
  /\ pc = "finally_session"
  /\ IF session = "None"
     THEN pc' = "finally_con" /\ UNCHANGED <<session, result, ops>>
     ELSE \E ok \in BOOLEAN :
            /\ ops' = Append(ops, Call("session_close", <<>>, <<>>, ok))
            /\ IF ok
               THEN session' = "closed" /\ pc' = "finally_con" /\ result' = result
               ELSE session' = session /\ pc' = "done" /\ result' = "raised"
  /\ UNCHANGED <<inputs, remote, con, store, csv_files, i, duckdb_tables, k,
                 arrow_table, ret>>

\* lines 77-79: if con: con.close(); then the pending return of line 47 or 70,
\* or lines 81-82 (return True) when none is pending
FinallyCon ==
  /\ pc = "finally_con"
  /\ pc' = "done"
  /\ IF con = "None"
     THEN /\ result' = (IF ret = "none" THEN "True" ELSE ret)
          /\ UNCHANGED <<con, store, ops>>
     ELSE \E ok \in BOOLEAN :
            /\ ops' = Append(ops, Call("con_close", <<>>, <<>>, ok))
            /\ IF ok
               THEN /\ con' = "closed"
                    /\ store' = NoTables
                    /\ result' = (IF ret = "none" THEN "True" ELSE ret)
               ELSE con' = con /\ store' = store /\ result' = "raised"
  /\ UNCHANGED <<inputs, remote, session, csv_files, i, duckdb_tables, k,
                 arrow_table, ret>>

\* lines 14-19 of main_script.py, run again: the next call of deploy on the same
\* directory and target
Rerun ==
  /\ pc = "done"
  /\ run < MaxRuns
  /\ run' = run + 1
  /\ prevResult' = result
  /\ prevRemote' = remote
  /\ pc' = "create"
  /\ session' = "None"
  /\ con' = "None"
  /\ store' = NoTables
  /\ csv_files' = <<>>
  /\ i' = 1
  /\ duckdb_tables' = <<>>
  /\ k' = 1
  /\ arrow_table' = <<>>
  /\ ret' = "none"
  /\ result' = "none"
  /\ ops' = <<>>
  /\ UNCHANGED <<directory, malformed, remote>>

Next ==
  \/ SessionCreate
  \/ UseDatabase
  \/ UseSchema
  \/ DuckdbConnect
  \/ Glob
  \/ LoadCsv
  \/ ShowTables
  \/ Export
  \/ Write
  \/ FinallySession
  \/ FinallyCon
  \/ Rerun

Spec == Init /\ [][Next]_vars

\* ------------------------------------------- the name derivation on its own
\* the strings over Alphabet of length n
RECURSIVE Strings(_)
Strings(n) ==
  IF n = 0 THEN {<<>>}
  ELSE { <<c>> \o t : c \in Alphabet, t \in Strings(n - 1) }

\* the base names glob's '*.csv' matches, with a stem of at most maxlen characters
MatchedNames(maxlen) ==
  { n \in { stem \o Ext : stem \in UNION { Strings(m) : m \in 1..maxlen } } : Matches(n) }

InitName ==
  /\ directory \in { <<n>> : n \in MatchedNames(MaxStem) }
  /\ malformed = {}
  /\ remote = NoTables
  /\ run = 1
  /\ prevResult = "none"
  /\ prevRemote = NoTables
  /\ pc = "name"
  /\ session = "None"
  /\ con = "None"
  /\ store = NoTables
  /\ csv_files = glob(directory)
  /\ i = 1
  /\ duckdb_tables = <<>>
  /\ k = 1
  /\ arrow_table = <<>>
  /\ ret = "none"
  /\ result = "none"
  /\ ops = <<>>

\* line 51 applied to csv_files[i]
DeriveName ==
  /\ pc = "name"
  /\ ops' = Append(ops, Call("name", csv_files[i], table_name(csv_files[i]), TRUE))
  /\ pc' = "named"
  /\ UNCHANGED <<inputs, remote, session, con, store, csv_files, i, duckdb_tables,
                 k, arrow_table, ret, result>>

NextName == DeriveName

SpecName == InitName /\ [][NextName]_vars

\* ------------------------------------------------- vocabulary of the claims
Idx == 1..Len(ops)

IsClose(c) == c.op \in {"session_close", "con_close"}

IsWrite(c) == c.op = "write" /\ c.ok

Attempted(op) == \E j \in Idx : ops[j].op = op

\* the calls of steps 1-5 that raised
FailedSteps == { j \in Idx : ~IsClose(ops[j]) /\ ~ops[j].ok }

\* the close calls that raised
FailedCloses == { j \in Idx : IsClose(ops[j]) /\ ~ops[j].ok }

\* the tables this call has written to the warehouse, in order
Written ==
  LET w == SelectSeq(ops, IsWrite) IN [j \in 1..Len(w) |-> w[j].tbl]

\* the matched files of the directory, whether or not the call got to line 44
MatchedFiles == glob(directory)

\* the table name the specification gives a file: the base name with only its
\* trailing extension removed, upper-cased
ClaimedName(csv_file) ==
  LET base == basename(csv_file)
  IN  upper(SubSeq(base, 1, Len(base) - Len(Ext)))

\* two matched files whose derived table names are the same
Collision ==
  \E j, l \in 1..Len(MatchedFiles) :
    j < l /\ table_name(MatchedFiles[j]) = table_name(MatchedFiles[l])

\* the load of ops[l] finds a table of its name loaded earlier in the call
SecondLoad(l) ==
  /\ ops[l].op = "load"
  /\ \E j \in 1..(l - 1) :
       ops[j].op = "load" /\ ops[j].ok /\ ops[j].tbl = ops[l].tbl

\* the warehouse tables at the start of this call
RemoteAtStart == prevRemote

\* the rows of the file whose load created table name in this call
LoadedRows(name) ==
  LET j == CHOOSE j \in Idx : ops[j].op = "load" /\ ops[j].ok /\ ops[j].tbl = name
  IN  Rows(basename(ops[j].file))

\* ------------------------------------------------------------------ claims

\* C1: when the enumeration of line 44 returns no matching file, deploy
\* returns False, having loaded nothing and written nothing, and no exception
\* leaves it.
C1_NoFilesReturnsFalse ==
  (pc = "done" /\ Attempted("glob") /\ csv_files = <<>>) =>
    /\ result = "False"
    /\ ~Attempted("load")
    /\ ~Attempted("write")
    /\ remote = RemoteAtStart

\* C2: with N >= 1 matched well-formed files and every call of connection,
\* load and write succeeding, deploy returns True and the tables written by
\* the call are exactly N, one per file, named by the upper-cased base name
\* without its trailing extension and holding the file's rows.
C2_OneTablePerFile ==
  (/\ pc = "done"
   /\ Len(csv_files) >= 1
   /\ malformed = {}
   /\ Attempted("write")
   /\ FailedSteps = {}) =>
    /\ result = "True"
    /\ Range(Written) = { ClaimedName(f) : f \in Range(csv_files) }
    /\ Cardinality(Range(Written)) = Len(csv_files)
    /\ Len(Written) = Len(csv_files)
    /\ \A f \in Range(csv_files) :
         /\ ClaimedName(f) \in DOMAIN remote
         /\ remote[ClaimedName(f)] = Rows(basename(f))

\* C3 as stated: a load whose derived name is already a table of the store
\* raises nothing and replaces the table, and the call ends with one warehouse
\* table of that name holding the rows of the file loaded second.
C3_LastLoadedWins ==
  /\ \A l \in Idx :
       (SecondLoad(l) /\ basename(ops[l].file) \notin malformed) => ops[l].ok
  /\ \A l \in Idx :
       (pc = "done" /\ SecondLoad(l) /\ FailedSteps \subseteq {l}) =>
         /\ result = "True"
         /\ ops[l].tbl \in DOMAIN remote
         /\ remote[ops[l].tbl] = Rows(basename(ops[l].file))

\* C3 as amended: a load whose derived name is already a table of the store
\* raises and leaves that table as the first load made it; a call on a
\* directory with two matched files of the same derived name never returns
\* True and writes no table to the warehouse.
C3_CollisionAbortsRun ==
  /\ \A l \in Idx : SecondLoad(l) => ~ops[l].ok
  /\ \A name \in DOMAIN store : store[name] = LoadedRows(name)
  /\ Collision =>
       /\ result # "True"
       /\ ~Attempted("write")
       /\ remote = RemoteAtStart

\* C3's case: the second of two colliding files was loaded after the first
\* had loaded, and the call has ended.
C3_Witness ==
  /\ pc = "done"
  /\ result = "False"
  /\ Collision
  /\ \E l \in Idx : SecondLoad(l) /\ basename(ops[l].file) \notin malformed

\* C4: when a close call raises, the other acquired resource has still been
\* closed, and deploy returns the boolean steps 1-5 determined: no exception
\* leaves it.
C4_ReleaseFailureNotFatal ==
  (pc = "done" /\ FailedCloses # {}) =>
    /\ result \in {"True", "False"}
    /\ result = (IF ret = "none" THEN "True" ELSE ret)
    /\ (session # "None" => Attempted("session_close"))
    /\ (con # "None" => Attempted("con_close"))

\* C5: when deploy has ended, each acquired resource has been closed exactly
\* once, and a resource never acquired has never been closed.
C5_ClosedExactlyOnce ==
  /\ Cardinality({ j \in Idx : ops[j].op = "session_close" }) <= 1
  /\ Cardinality({ j \in Idx : ops[j].op = "con_close" }) <= 1
  /\ (session = "None" => ~Attempted("session_close"))
  /\ (con = "None" => ~Attempted("con_close"))
  /\ pc = "done" =>
       /\ (session # "None" => Attempted("session_close") /\ session = "closed")
       /\ (con # "None" => Attempted("con_close") /\ con = "closed")

\* C6: when the load of a file raises, deploy returns False and the call has
\* written no table to the warehouse; no load follows a write.
C6_NoWriteAfterFailedLoad ==
  /\ \A j, l \in Idx : (j < l /\ ops[j].op = "write") => ops[l].op # "load"
  /\ (\E l \in Idx : ops[l].op = "load" /\ ~ops[l].ok) =>
       /\ ~Attempted("write")
       /\ remote = RemoteAtStart
       /\ (pc = "done" => result = "False")

\* C7: when opening the session or selecting the database or the schema
\* raises, deploy returns False, the local store is never opened, no file is
\* enumerated or loaded, nothing is written, and a session that was opened is
\* closed.
C7_ConnectionFailure ==
  (\E j \in Idx : ops[j].op \in {"create", "use_database", "use_schema"} /\ ~ops[j].ok) =>
    /\ con = "None"
    /\ ~Attempted("connect")
    /\ ~Attempted("glob")
    /\ ~Attempted("load")
    /\ ~Attempted("write")
    /\ remote = RemoteAtStart
    /\ (pc = "done" => result = "False" /\ session \in {"None", "closed"})

\* C8: a call that returns True right after a call that returned True, on the
\* same directory and target, leaves the warehouse tables and their rows as
\* the first call left them.
C8_RerunIdempotent ==
  (pc = "done" /\ run >= 2 /\ result = "True" /\ prevResult = "True") =>
    remote = prevRemote

\* C8's case: a second successful call has ended, having overwritten the
\* tables the first call wrote.
C8_Witness ==
  /\ pc = "done"
  /\ run >= 2
  /\ result = "True"
  /\ prevResult = "True"
  /\ Len(Written) >= 1
  /\ \A j \in 1..Len(Written) : Written[j] \in DOMAIN prevRemote

\* C9: the first call of steps 1-5 that raises ends the run: only close calls
\* follow it, no call is made twice, and deploy returns False; when it is the
\* write of the k-th listed table, the tables written are the first k-1 of the
\* listing, and they stay written.
C9_FirstFailureEndsRun ==
  /\ \A j, l \in Idx :
       (j < l /\ ~IsClose(ops[j]) /\ ~ops[j].ok) => IsClose(ops[l])
  /\ \A j, l \in Idx :
       (j # l) =>
         <<ops[j].op, ops[j].file, ops[j].tbl>> # <<ops[l].op, ops[l].file, ops[l].tbl>>
  /\ (pc = "done" /\ FailedSteps # {}) => result = "False"
  /\ \A j \in Idx :
       (ops[j].op = "write" /\ ~ops[j].ok) =>
         /\ duckdb_tables[k] = ops[j].tbl
         /\ Written = SubSeq(duckdb_tables, 1, k - 1)
         /\ \A m \in 1..(k - 1) :
              /\ duckdb_tables[m] \in DOMAIN remote
              /\ remote[duckdb_tables[m]] = LoadedRows(duckdb_tables[m])

\* C10: the table name derived from a matched file is its base name with only
\* the trailing extension removed, upper-cased; the rest of the base name is
\* kept.
C10_OnlyTrailingExtensionStripped ==
  \A j \in Idx :
    ops[j].op \in {"load", "name"} => ops[j].tbl = ClaimedName(ops[j].file)

====
